---- MODULE Spec2Model ----
(***************************************************************************)
(* A model of three parts of rustls:                                       *)
(*   - rustls/src/crypto/ring/sign.rs : private-key loading                *)
(*     (any_supported_type, any_ecdsa_type, any_eddsa_type), the RSA,      *)
(*     ECDSA and Ed25519 signing keys and their signers;                   *)
(*   - rustls/src/tls13/mod.rs : Tls13CipherSuite::can_resume_from and     *)
(*     the CertificateVerify message construction;                         *)
(*   - rustls/src/client/builder.rs : the typestate client config builder. *)
(* Each part has its own specification (SpecSign, SpecSuite, SpecVerify,   *)
(* Spec); a specification leaves the other parts' variables untouched.     *)
(***************************************************************************)
EXTENDS Integers, Sequences, FiniteSets, TLC

(***************************************************************************)
(* Bounds of the model.                                                    *)
(***************************************************************************)
\* the longest list of signature schemes a peer offers
MaxOffered == 2
\* the longest transcript hash, in bytes
MaxHashLen == 3
\* the most certificate requests the handshakes make of one ClientConfig
MaxRequests == 2
\* the most handshakes that share one SigningKey at a time
MaxHandshakes == 2

VARIABLES
    \* ---- crypto/ring/sign.rs ----
    der,        \* the PrivateKeyDer handed to the loader: [tag, bytes]
    entry,      \* the entry point that was called on der, or "none"
    loaded,     \* what the entry point returned: NotCalled, Ok(key), Err, Panic
    offered,    \* the offered list of the last choose_scheme call
    signer,     \* what choose_scheme returned: NotCalled, Some(signer), None, Panic
    sig,        \* what the last Signer::sign returned: NotCalled, Ok(sig), Err
    \* ---- tls13/mod.rs ----
    this,       \* the suite can_resume_from is called on (self)
    prev,       \* its argument
    resumed,    \* what can_resume_from returned: NotCalled, Some(suite), None
    handshake_hash, \* the transcript hash handed to construct_*_verify_message
    role,       \* "none", "client" or "server": which of the two was called
    msg,        \* the Vec<u8> it returned
    \* ---- client/builder.rs ----
    stage,      \* the type of the value the caller holds: "WantsVerifier",
                \* "WantsClientCert", "ClientConfig", or "Err" (the builder is gone)
    accessor,   \* "dangerous" while the builder is inside DangerousClientConfigBuilder
    state,      \* ConfigBuilder::state, the fields of the current stage
    calls,      \* the calls made so far, each [op, args]
    config,     \* what the last stage returned: NotCalled, Ok(ClientConfig), Err
    requests,   \* the certificate requests the handshakes made of the
                \* ClientConfig's resolver so far, each with its answer
    \* ---- crypto/ring/sign.rs, one key shared by several handshakes ----
    shared_key,     \* the SigningKey behind the Arc<dyn SigningKey> they share
    strong_count,   \* the strong count of the Arc<..KeyPair> inside the key
    handshakes      \* per handshake: where it is in choose_scheme / sign, the
                    \* offered list, the scheme matched, the signer, the signature

signVars    == <<der, entry, loaded, offered, signer, sig>>
suiteVars   == <<this, prev, resumed>>
verifyVars  == <<handshake_hash, role, msg>>
builderVars == <<stage, accessor, state, calls, config, requests>>
sharedVars  == <<shared_key, strong_count, handshakes>>
vars == <<signVars, suiteVars, verifyVars, builderVars, sharedVars>>

(***************************************************************************)
(* Rust's Result / Option values, and a panic (unreachable!()).            *)
(***************************************************************************)
Ok(v)     == [tag |-> "Ok", val |-> v]
Err(e)    == [tag |-> "Err", val |-> e]
Some(v)   == [tag |-> "Some", val |-> v]
None      == [tag |-> "None", val |-> [type |-> "None"]]
Panic     == [tag |-> "Panic", val |-> [type |-> "unreachable"]]
NotCalled == [tag |-> "NotCalled", val |-> [type |-> "NotCalled"]]

\* sign.rs:346  pub struct SignError(());
SignError == [type |-> "SignError"]
\* EcdsaSigningKey::new and convert_sec1_to_pkcs8 return Result<_, ()>
Unit == [type |-> "()"]

(***************************************************************************)
(* SignatureScheme values. The first nine are the schemes sign.rs names;   *)
(* ECDSA_NISTP521_SHA512 stands for a scheme no key of this file supports. *)
(***************************************************************************)
\* mutant of ALL_RSA_SCHEMES: one more scheme, for which RsaSigner::new has
\* no arm
ALL_RSA_SCHEMES_WithEd25519 ==
    << "RSA_PSS_SHA512", "RSA_PSS_SHA384", "RSA_PSS_SHA256",
       "RSA_PKCS1_SHA512", "RSA_PKCS1_SHA384", "RSA_PKCS1_SHA256", "ED25519" >>

ALL_RSA_SCHEMES ==
    << "RSA_PSS_SHA512", "RSA_PSS_SHA384", "RSA_PSS_SHA256",
       "RSA_PKCS1_SHA512", "RSA_PKCS1_SHA384", "RSA_PKCS1_SHA256" >>

SignatureSchemes ==
    { "RSA_PSS_SHA512", "RSA_PSS_SHA384", "RSA_PSS_SHA256",
      "RSA_PKCS1_SHA512", "RSA_PKCS1_SHA384", "RSA_PKCS1_SHA256",
      "ECDSA_NISTP256_SHA256", "ECDSA_NISTP384_SHA384", "ED25519",
      "ECDSA_NISTP521_SHA512" }

\* SignatureScheme::sign() (enums.rs): the SignatureAlgorithm family of a
\* scheme
SignatureScheme_sign(scheme) ==
    CASE scheme \in { "RSA_PSS_SHA512", "RSA_PSS_SHA384", "RSA_PSS_SHA256",
                      "RSA_PKCS1_SHA512", "RSA_PKCS1_SHA384", "RSA_PKCS1_SHA256" }
           -> "RSA"
      [] scheme \in { "ECDSA_NISTP256_SHA256", "ECDSA_NISTP384_SHA384",
                      "ECDSA_NISTP521_SHA512" }
           -> "ECDSA"
      [] scheme = "ED25519" -> "ED25519"
      [] OTHER -> "Unknown"

\* slice::contains
Contains(s, x) == \E i \in DOMAIN s : s[i] = x

(***************************************************************************)
(* Key bytes. A byte string handed in by the caller is abstracted by the   *)
(* set of DER forms it is a valid encoding of ("raw" bytes); no form at    *)
(* all is syntactically invalid DER. ring decides from the bytes alone, so *)
(* a byte string valid as several forms covers every combination of       *)
(* per-parser outcomes. The bytes convert_sec1_to_pkcs8 builds keep their  *)
(* structure: a SEQUENCE of the fixed prefix and an OCTET STRING.          *)
(***************************************************************************)
DerForms ==
    { "RSAPrivateKey",              \* PKCS#1 RSA
      "PrivateKeyInfo-rsa",         \* PKCS#8, rsaEncryption
      "PrivateKeyInfo-p256",        \* PKCS#8, id-ecPublicKey prime256v1
      "PrivateKeyInfo-p384",        \* PKCS#8, id-ecPublicKey secp384r1
      "PrivateKeyInfo-ed25519",     \* PKCS#8, id-Ed25519
      "ECPrivateKey-p256",          \* SEC1, P-256
      "ECPrivateKey-p384" }         \* SEC1, P-384

RawBytes == { [kind |-> "raw", forms |-> f] : f \in SUBSET DerForms }

\* pki_types::PrivateKeyDer: Pkcs1, Sec1, Pkcs8 (non_exhaustive: "Other"
\* stands for any variant the `_ =>` arms receive)
DerTags == { "Pkcs1", "Sec1", "Pkcs8", "Other" }

PrivateKeyDers == [tag : DerTags, bytes : RawBytes]

\* sign.rs:231 PKCS8_PREFIX_ECDSA_NISTP256
PKCS8_PREFIX_ECDSA_NISTP256 ==
    << 2, 1, 0,
       48, 19,
       6, 7, 42, 134, 72, 206, 61, 2, 1,
       6, 8, 42, 134, 72, 206, 61, 3, 1, 7 >>

\* sign.rs:241 PKCS8_PREFIX_ECDSA_NISTP384
PKCS8_PREFIX_ECDSA_NISTP384 ==
    << 2, 1, 0,
       48, 16,
       6, 7, 42, 134, 72, 206, 61, 2, 1,
       6, 5, 43, 129, 4, 0, 34 >>

(***************************************************************************)
(* ring's parsers, as sign.rs calls them.                                  *)
(***************************************************************************)
\* RsaKeyPair::from_der
RsaKeyPair_from_der(bytes) ==
    IF bytes.kind = "raw" /\ "RSAPrivateKey" \in bytes.forms
    THEN Ok([type |-> "RsaKeyPair", alg |-> "RSA"])
    ELSE Err([type |-> "KeyRejected"])

\* RsaKeyPair::from_pkcs8
RsaKeyPair_from_pkcs8(bytes) ==
    IF bytes.kind = "raw" /\ "PrivateKeyInfo-rsa" \in bytes.forms
    THEN Ok([type |-> "RsaKeyPair", alg |-> "RSA"])
    ELSE Err([type |-> "KeyRejected"])

\* EcdsaKeyPair::from_pkcs8(sigalg, ..): the PrivateKeyInfo must name the
\* curve of sigalg and hold an ECPrivateKey on that curve
EcdsaKeyPair_from_pkcs8(sigalg, bytes) ==
    LET p256 == sigalg = "ECDSA_P256_SHA256_ASN1_SIGNING"
        accepted ==
            IF bytes.kind = "raw"
            THEN IF p256 THEN "PrivateKeyInfo-p256" \in bytes.forms
                         ELSE "PrivateKeyInfo-p384" \in bytes.forms
            ELSE /\ bytes.kind = "SEQUENCE"
                 /\ bytes.prefix = IF p256 THEN PKCS8_PREFIX_ECDSA_NISTP256
                                           ELSE PKCS8_PREFIX_ECDSA_NISTP384
                 /\ bytes.octet_string.kind = "raw"
                 /\ IF p256 THEN "ECPrivateKey-p256" \in bytes.octet_string.forms
                            ELSE "ECPrivateKey-p384" \in bytes.octet_string.forms
    IN  IF accepted
        THEN Ok([type |-> "EcdsaKeyPair", alg |-> sigalg])
        ELSE Err([type |-> "KeyRejected"])

\* Ed25519KeyPair::from_pkcs8_maybe_unchecked
Ed25519KeyPair_from_pkcs8_maybe_unchecked(bytes) ==
    IF bytes.kind = "raw" /\ "PrivateKeyInfo-ed25519" \in bytes.forms
    THEN Ok([type |-> "Ed25519KeyPair", alg |-> "ED25519"])
    ELSE Err([type |-> "KeyRejected"])

(***************************************************************************)
(* RsaSigningKey, RsaSigner                                                *)
(***************************************************************************)
\* RsaSigningKey::new
RsaSigningKey_new(d) ==
    LET key_pair ==
            CASE d.tag = "Pkcs1" -> RsaKeyPair_from_der(d.bytes)
              [] d.tag = "Pkcs8" -> RsaKeyPair_from_pkcs8(d.bytes)
              [] OTHER -> Err(SignError)
    IN  IF key_pair.tag = "Ok"
        THEN Ok([type |-> "RsaSigningKey", key |-> key_pair.val])
        ELSE Err(SignError)

\* RsaSigner::new: a signer, or the unreachable!() arm
RsaSigner_new(key, scheme) ==
    LET encoding ==
            CASE scheme = "RSA_PKCS1_SHA256" -> "RSA_PKCS1_SHA256"
              [] scheme = "RSA_PKCS1_SHA384" -> "RSA_PKCS1_SHA384"
              [] scheme = "RSA_PKCS1_SHA512" -> "RSA_PKCS1_SHA512"
              [] scheme = "RSA_PSS_SHA256" -> "RSA_PSS_SHA256"
              [] scheme = "RSA_PSS_SHA384" -> "RSA_PSS_SHA384"
              [] scheme = "RSA_PSS_SHA512" -> "RSA_PSS_SHA512"
              [] OTHER -> "unreachable"
    IN  IF encoding = "unreachable"
        THEN [type |-> "unreachable", key |-> key, scheme |-> scheme,
              encoding |-> encoding]
        ELSE [type |-> "RsaSigner", key |-> key, scheme |-> scheme,
              encoding |-> encoding]

\* mutant of RsaSigningKey_choose_scheme: the first RSA scheme in the order
\* of offered (offered.iter().find(|s| ALL_RSA_SCHEMES.contains(s)))
RsaSigningKey_choose_scheme_OfferedOrder(self, offer) ==
    LET found == { i \in DOMAIN offer : Contains(ALL_RSA_SCHEMES, offer[i]) }
    IN  IF found = {}
        THEN None
        ELSE LET first == CHOOSE i \in found : \A j \in found : i <= j
                 s == RsaSigner_new(self.key, offer[first])
             IN  IF s.type = "unreachable" THEN Panic ELSE Some(s)

\* <RsaSigningKey as SigningKey>::choose_scheme
RsaSigningKey_choose_scheme(self, offer) ==
    LET found == { i \in DOMAIN ALL_RSA_SCHEMES : Contains(offer, ALL_RSA_SCHEMES[i]) }
    IN  IF found = {}
        THEN None
        ELSE LET first == CHOOSE i \in found : \A j \in found : i <= j
                 s == RsaSigner_new(self.key, ALL_RSA_SCHEMES[first])
             IN  IF s.type = "unreachable" THEN Panic ELSE Some(s)

\* <RsaSigningKey as SigningKey>::algorithm
RsaSigningKey_algorithm(self) == "RSA"

(***************************************************************************)
(* EcdsaSigningKey, EcdsaSigner                                            *)
(***************************************************************************)
\* mutant of convert_sec1_to_pkcs8: the P256 prefix for both schemes
convert_sec1_to_pkcs8_SamePrefix(scheme, sigalg, maybe_sec1_der) ==
    LET pkcs8_prefix ==
            CASE scheme = "ECDSA_NISTP256_SHA256" -> PKCS8_PREFIX_ECDSA_NISTP256
              [] scheme = "ECDSA_NISTP384_SHA384" -> PKCS8_PREFIX_ECDSA_NISTP256
              [] OTHER -> << >>
        pkcs8 == [kind |-> "SEQUENCE", prefix |-> pkcs8_prefix,
                  octet_string |-> maybe_sec1_der]
        r == EcdsaKeyPair_from_pkcs8(sigalg, pkcs8)
    IN  IF scheme \notin { "ECDSA_NISTP256_SHA256", "ECDSA_NISTP384_SHA384" }
        THEN Panic
        ELSE IF r.tag = "Ok" THEN r ELSE Err(Unit)

\* EcdsaSigningKey::convert_sec1_to_pkcs8
convert_sec1_to_pkcs8(scheme, sigalg, maybe_sec1_der) ==
    LET pkcs8_prefix ==
            CASE scheme = "ECDSA_NISTP256_SHA256" -> PKCS8_PREFIX_ECDSA_NISTP256
              [] scheme = "ECDSA_NISTP384_SHA384" -> PKCS8_PREFIX_ECDSA_NISTP384
              [] OTHER -> << >>
        pkcs8 == [kind |-> "SEQUENCE", prefix |-> pkcs8_prefix,
                  octet_string |-> maybe_sec1_der]
        r == EcdsaKeyPair_from_pkcs8(sigalg, pkcs8)
    IN  IF scheme \notin { "ECDSA_NISTP256_SHA256", "ECDSA_NISTP384_SHA384" }
        THEN Panic
        ELSE IF r.tag = "Ok" THEN r ELSE Err(Unit)

\* mutant of EcdsaSigningKey_new: the key keeps the P256 scheme whatever
\* scheme it was asked for
EcdsaSigningKey_new_FixedScheme(d, scheme, sigalg) ==
    LET key_pair ==
            CASE d.tag = "Sec1" -> convert_sec1_to_pkcs8(scheme, sigalg, d.bytes)
              [] d.tag = "Pkcs8" ->
                    LET r == EcdsaKeyPair_from_pkcs8(sigalg, d.bytes)
                    IN  IF r.tag = "Ok" THEN r ELSE Err(Unit)
              [] OTHER -> Err(Unit)
    IN  CASE key_pair.tag = "Ok" ->
                Ok([type |-> "EcdsaSigningKey", key |-> key_pair.val,
                    scheme |-> "ECDSA_NISTP256_SHA256"])
          [] key_pair.tag = "Panic" -> Panic
          [] OTHER -> Err(Unit)

\* EcdsaSigningKey::new
EcdsaSigningKey_new(d, scheme, sigalg) ==
    LET key_pair ==
            CASE d.tag = "Sec1" -> convert_sec1_to_pkcs8(scheme, sigalg, d.bytes)
              [] d.tag = "Pkcs8" ->
                    LET r == EcdsaKeyPair_from_pkcs8(sigalg, d.bytes)
                    IN  IF r.tag = "Ok" THEN r ELSE Err(Unit)
              [] OTHER -> Err(Unit)
    IN  CASE key_pair.tag = "Ok" ->
                Ok([type |-> "EcdsaSigningKey", key |-> key_pair.val, scheme |-> scheme])
          [] key_pair.tag = "Panic" -> Panic
          [] OTHER -> Err(Unit)

\* <EcdsaSigningKey as SigningKey>::choose_scheme
EcdsaSigningKey_choose_scheme(self, offer) ==
    IF Contains(offer, self.scheme)
    THEN Some([type |-> "EcdsaSigner", key |-> self.key, scheme |-> self.scheme])
    ELSE None

\* <EcdsaSigningKey as SigningKey>::algorithm
EcdsaSigningKey_algorithm(self) == SignatureScheme_sign(self.scheme)

(***************************************************************************)
(* Ed25519SigningKey, Ed25519Signer                                        *)
(***************************************************************************)
\* Ed25519SigningKey::new
Ed25519SigningKey_new(pkcs8, scheme) ==
    LET r == Ed25519KeyPair_from_pkcs8_maybe_unchecked(pkcs8)
    IN  IF r.tag = "Ok"
        THEN Ok([type |-> "Ed25519SigningKey", key |-> r.val, scheme |-> scheme])
        ELSE Err(SignError)

\* mutant of Ed25519SigningKey_choose_scheme: a signer whatever is offered
Ed25519SigningKey_choose_scheme_Unchecked(self, offer) ==
    Some([type |-> "Ed25519Signer", key |-> self.key, scheme |-> self.scheme])

\* <Ed25519SigningKey as SigningKey>::choose_scheme
Ed25519SigningKey_choose_scheme(self, offer) ==
    IF Contains(offer, self.scheme)
    THEN Some([type |-> "Ed25519Signer", key |-> self.key, scheme |-> self.scheme])
    ELSE None

\* <Ed25519SigningKey as SigningKey>::algorithm
Ed25519SigningKey_algorithm(self) == SignatureScheme_sign(self.scheme)

(***************************************************************************)
(* The loaders                                                             *)
(***************************************************************************)
\* mutant of any_ecdsa_type: P384 is tried before P256
any_ecdsa_type_P384First(d) ==
    LET ecdsa_p256 == EcdsaSigningKey_new(d, "ECDSA_NISTP256_SHA256",
                                          "ECDSA_P256_SHA256_ASN1_SIGNING")
        ecdsa_p384 == EcdsaSigningKey_new(d, "ECDSA_NISTP384_SHA384",
                                          "ECDSA_P384_SHA384_ASN1_SIGNING")
    IN  CASE ecdsa_p384.tag \in {"Ok", "Panic"} -> ecdsa_p384
          [] ecdsa_p256.tag \in {"Ok", "Panic"} -> ecdsa_p256
          [] OTHER -> Err(SignError)

\* any_ecdsa_type
any_ecdsa_type(d) ==
    LET ecdsa_p256 == EcdsaSigningKey_new(d, "ECDSA_NISTP256_SHA256",
                                          "ECDSA_P256_SHA256_ASN1_SIGNING")
        ecdsa_p384 == EcdsaSigningKey_new(d, "ECDSA_NISTP384_SHA384",
                                          "ECDSA_P384_SHA384_ASN1_SIGNING")
    IN  CASE ecdsa_p256.tag \in {"Ok", "Panic"} -> ecdsa_p256
          [] ecdsa_p384.tag \in {"Ok", "Panic"} -> ecdsa_p384
          [] OTHER -> Err(SignError)

\* any_eddsa_type: its argument is a PrivatePkcs8KeyDer, the bytes of a
\* PKCS8-tagged key
any_eddsa_type(pkcs8) ==
    LET ed25519 == Ed25519SigningKey_new(pkcs8, "ED25519")
    IN  IF ed25519.tag = "Ok" THEN ed25519 ELSE Err(SignError)

\* mutant of any_supported_type: ECDSA is tried before RSA
any_supported_type_EcdsaFirst(d) ==
    LET rsa == RsaSigningKey_new(d)
        ecdsa == any_ecdsa_type(d)
    IN  CASE ecdsa.tag \in {"Ok", "Panic"} -> ecdsa
          [] rsa.tag = "Ok" -> rsa
          [] d.tag = "Pkcs8" -> any_eddsa_type(d.bytes)
          [] OTHER -> Err(SignError)

\* any_supported_type
any_supported_type(d) ==
    LET rsa == RsaSigningKey_new(d)
        ecdsa == any_ecdsa_type(d)
    IN  CASE rsa.tag = "Ok" -> rsa
          [] ecdsa.tag \in {"Ok", "Panic"} -> ecdsa
          [] d.tag = "Pkcs8" -> any_eddsa_type(d.bytes)
          [] OTHER -> Err(SignError)

(***************************************************************************)
(* dyn SigningKey / dyn Signer dispatch                                    *)
(***************************************************************************)
SigningKey_choose_scheme(key, offer) ==
    CASE key.type = "RsaSigningKey" -> RsaSigningKey_choose_scheme(key, offer)
      [] key.type = "EcdsaSigningKey" -> EcdsaSigningKey_choose_scheme(key, offer)
      [] key.type = "Ed25519SigningKey" -> Ed25519SigningKey_choose_scheme(key, offer)

SigningKey_algorithm(key) ==
    CASE key.type = "RsaSigningKey" -> RsaSigningKey_algorithm(key)
      [] key.type = "EcdsaSigningKey" -> EcdsaSigningKey_algorithm(key)
      [] key.type = "Ed25519SigningKey" -> Ed25519SigningKey_algorithm(key)

\* Signer::scheme, the same body in the three signers
Signer_scheme(self) == self.scheme

\* Signer::sign: the set of results the call can have. ring can reject an
\* RSA or ECDSA request ("signing failed"); Ed25519 signing cannot fail.
Signer_sign(self, message) ==
    LET signature == [type |-> "Signature",
                      alg |-> IF self.type = "RsaSigner" THEN self.encoding
                                                         ELSE self.key.alg,
                      message |-> message]
        failed == [type |-> "Error::General", reason |-> "signing failed"]
    IN  IF self.type = "Ed25519Signer"
        THEN { Ok(signature) }
        ELSE { Ok(signature), Err(failed) }

Messages == { "message" }

OfferedLists == UNION { [1..n -> SignatureSchemes] : n \in 0..MaxOffered }

(***************************************************************************)
(* The state of a part no operation of which has been called.              *)
(***************************************************************************)
IdleSign ==
    /\ der = [tag |-> "Other", bytes |-> [kind |-> "raw", forms |-> {}]]
    /\ entry = "none"
    /\ loaded = NotCalled
    /\ offered = << >>
    /\ signer = NotCalled
    /\ sig = NotCalled

IdleSuite ==
    /\ this = [type |-> "none"]
    /\ prev = [type |-> "none"]
    /\ resumed = NotCalled

IdleVerify ==
    /\ handshake_hash = << >>
    /\ role = "none"
    /\ msg = << >>

IdleShared ==
    /\ shared_key = [type |-> "none"]
    /\ strong_count = 0
    /\ handshakes = << >>

IdleBuilder ==
    /\ stage = "none"
    /\ accessor = "none"
    /\ state = [type |-> "none"]
    /\ requests = << >>
    /\ calls = << >>
    /\ config = NotCalled

(***************************************************************************)
(* SpecSign: a key is loaded through one of the three entry points, then   *)
(* choose_scheme is called on it with offered lists, and the signer signs. *)
(***************************************************************************)
InitSign ==
    /\ der \in PrivateKeyDers
    /\ entry = "none"
    /\ loaded = NotCalled
    /\ offered = << >>
    /\ signer = NotCalled
    /\ sig = NotCalled
    /\ IdleSuite /\ IdleVerify /\ IdleBuilder /\ IdleShared

LoadAnySupportedType ==
    /\ entry = "none"
    /\ entry' = "any_supported_type"
    /\ loaded' = any_supported_type(der)
    /\ UNCHANGED <<der, offered, signer, sig, suiteVars, verifyVars, builderVars, sharedVars>>

LoadAnyEcdsaType ==
    /\ entry = "none"
    /\ entry' = "any_ecdsa_type"
    /\ loaded' = any_ecdsa_type(der)
    /\ UNCHANGED <<der, offered, signer, sig, suiteVars, verifyVars, builderVars, sharedVars>>

LoadAnyEddsaType ==
    /\ entry = "none"
    /\ der.tag = "Pkcs8"
    /\ entry' = "any_eddsa_type"
    /\ loaded' = any_eddsa_type(der.bytes)
    /\ UNCHANGED <<der, offered, signer, sig, suiteVars, verifyVars, builderVars, sharedVars>>

ChooseScheme ==
    /\ loaded.tag = "Ok"
    /\ signer.tag = "NotCalled"
    /\ \E offer \in OfferedLists :
          /\ offered' = offer
          /\ signer' = SigningKey_choose_scheme(loaded.val, offer)
    /\ sig' = NotCalled
    /\ UNCHANGED <<der, entry, loaded, suiteVars, verifyVars, builderVars, sharedVars>>

Sign ==
    /\ signer.tag = "Some"
    /\ \E message \in Messages : sig' \in Signer_sign(signer.val, message)
    /\ UNCHANGED <<der, entry, loaded, offered, signer, suiteVars, verifyVars, builderVars, sharedVars>>

\* the Option<Box<dyn Signer>> a handshake got goes out of scope; the key
\* stays, and the next handshake calls choose_scheme on it again
DropSigner ==
    /\ signer.tag \in {"Some", "None"}
    /\ offered' = << >>
    /\ signer' = NotCalled
    /\ sig' = NotCalled
    /\ UNCHANGED <<der, entry, loaded, suiteVars, verifyVars, builderVars, sharedVars>>

NextSign ==
    \/ LoadAnySupportedType
    \/ LoadAnyEcdsaType
    \/ LoadAnyEddsaType
    \/ ChooseScheme
    \/ Sign
    \/ DropSigner

SpecSign == InitSign /\ [][NextSign]_vars

(***************************************************************************)
(* One SigningKey shared by concurrently running handshakes. Each          *)
(* handshake holds a clone of the Arc<dyn SigningKey> and calls            *)
(* choose_scheme(&self, ..) and Signer::sign(&self, ..) on its own thread; *)
(* the reads a call makes of the key are separate steps, so that calls of  *)
(* different handshakes interleave.                                        *)
(***************************************************************************)
Handshakes == 1..MaxHandshakes

\* the keys any_supported_type can have loaded
SharedKeys ==
    { any_supported_type(d).val :
        d \in { k \in PrivateKeyDers : any_supported_type(k).tag = "Ok" } }

\* the lists the peers of the handshakes offer
SharedOffers ==
    { << >>, << "ED25519" >>, << "ECDSA_NISTP384_SHA384" >>,
      << "RSA_PKCS1_SHA256", "RSA_PSS_SHA512" >>,
      << "ECDSA_NISTP256_SHA256", "RSA_PSS_SHA256" >> }

NoScheme == "none"

\* the first half of choose_scheme: the scheme of the key that is in offer.
\* RSA: ALL_RSA_SCHEMES.iter().find(|scheme| offered.contains(scheme));
\* ECDSA, Ed25519: offered.contains(&self.scheme)
MatchedScheme(self, offer) ==
    IF self.type = "RsaSigningKey"
    THEN LET found == { i \in DOMAIN ALL_RSA_SCHEMES :
                          Contains(offer, ALL_RSA_SCHEMES[i]) }
         IN  IF found = {}
             THEN NoScheme
             ELSE ALL_RSA_SCHEMES[CHOOSE i \in found : \A j \in found : i <= j]
    ELSE IF Contains(offer, self.scheme) THEN self.scheme ELSE NoScheme

\* the second half of choose_scheme: the signer built for the matched scheme.
\* RSA: RsaSigner::new(Arc::clone(&self.key), *scheme); ECDSA, Ed25519: the
\* signer holds Arc::clone(&self.key) and self.scheme, read again
SignerFor(self, scheme) ==
    CASE scheme = NoScheme -> None
      [] self.type = "RsaSigningKey" ->
            LET s == RsaSigner_new(self.key, scheme)
            IN  IF s.type = "unreachable" THEN Panic ELSE Some(s)
      [] self.type = "EcdsaSigningKey" ->
            Some([type |-> "EcdsaSigner", key |-> self.key, scheme |-> self.scheme])
      [] self.type = "Ed25519SigningKey" ->
            Some([type |-> "Ed25519Signer", key |-> self.key, scheme |-> self.scheme])

\* a handshake that holds nothing
NoHandshake ==
    [pc |-> "idle", offered |-> << >>, found |-> NoScheme,
     signer |-> NotCalled, sig |-> NotCalled]

InitShared ==
    /\ shared_key \in SharedKeys
    /\ strong_count = 1
    /\ handshakes = [h \in Handshakes |-> NoHandshake]
    /\ IdleSign /\ IdleSuite /\ IdleVerify /\ IdleBuilder

\* handshake h calls choose_scheme on the shared key with its peer's list
EnterChooseScheme(h) ==
    /\ handshakes[h].pc = "idle"
    /\ \E offer \in SharedOffers :
          handshakes' = [handshakes EXCEPT ![h].pc = "entered", ![h].offered = offer]
    /\ UNCHANGED <<shared_key, strong_count,
                   signVars, suiteVars, verifyVars, builderVars>>

\* mutant of MatchScheme: a key with one fixed scheme that found it missing
\* from the offered list takes over the first offered scheme
MatchScheme_Adopting(h) ==
    /\ handshakes[h].pc = "entered"
    /\ LET found == MatchedScheme(shared_key, handshakes[h].offered)
       IN  /\ handshakes' = [handshakes EXCEPT ![h].pc = "matched", ![h].found = found]
           /\ shared_key' =
                 IF /\ shared_key.type # "RsaSigningKey"
                    /\ found = NoScheme
                    /\ handshakes[h].offered # << >>
                 THEN [shared_key EXCEPT !.scheme = handshakes[h].offered[1]]
                 ELSE shared_key
    /\ UNCHANGED <<strong_count, signVars, suiteVars, verifyVars, builderVars>>

\* choose_scheme of handshake h looks for a scheme of the key in offered
MatchScheme(h) ==
    /\ handshakes[h].pc = "entered"
    /\ handshakes' = [handshakes EXCEPT
                        ![h].pc = "matched",
                        ![h].found = MatchedScheme(shared_key, handshakes[h].offered)]
    /\ UNCHANGED <<shared_key, strong_count,
                   signVars, suiteVars, verifyVars, builderVars>>

\* choose_scheme of handshake h returns: None, or a signer over a clone of the
\* key's Arc (one more strong reference)
ReturnSigner(h) ==
    /\ handshakes[h].pc = "matched"
    /\ LET s == SignerFor(shared_key, handshakes[h].found)
       IN  /\ handshakes' = [handshakes EXCEPT ![h].pc = "returned", ![h].signer = s]
           /\ strong_count' = IF s.tag = "Some" THEN strong_count + 1 ELSE strong_count
    /\ UNCHANGED <<shared_key, signVars, suiteVars, verifyVars, builderVars>>

\* handshake h signs with its signer
SignShared(h) ==
    /\ handshakes[h].pc = "returned"
    /\ handshakes[h].signer.tag = "Some"
    /\ \E message \in Messages :
          \E r \in Signer_sign(handshakes[h].signer.val, message) :
              handshakes' = [handshakes EXCEPT ![h].pc = "signed", ![h].sig = r]
    /\ UNCHANGED <<shared_key, strong_count,
                   signVars, suiteVars, verifyVars, builderVars>>

\* handshake h is over: its signer is dropped, and with it the signer's
\* reference to the key pair
EndHandshake(h) ==
    /\ handshakes[h].pc \in { "returned", "signed" }
    /\ handshakes[h].signer.tag # "Panic"
    /\ handshakes' = [handshakes EXCEPT ![h] = NoHandshake]
    /\ strong_count' = IF handshakes[h].signer.tag = "Some"
                       THEN strong_count - 1 ELSE strong_count
    /\ UNCHANGED <<shared_key, signVars, suiteVars, verifyVars, builderVars>>

NextShared ==
    \E h \in Handshakes :
        \/ EnterChooseScheme(h)
        \/ MatchScheme(h)
        \/ ReturnSigner(h)
        \/ SignShared(h)
        \/ EndHandshake(h)

SpecShared == InitShared /\ [][NextShared]_vars

(***************************************************************************)
(* tls13/mod.rs: Tls13CipherSuite                                          *)
(***************************************************************************)
\* the hash providers a suite can name: what algorithm() returns, and which
\* implementation it is (two providers can implement the same algorithm)
HashProviders == [algorithm : {"SHA256", "SHA384"}, impl : {"ring", "other"}]

\* struct Tls13CipherSuite (the quic fields are feature-gated)
Tls13CipherSuites ==
    [ common : [suite : {"TLS13_AES_128_GCM_SHA256", "TLS13_AES_256_GCM_SHA384"},
                hash_provider : HashProviders],
      hmac_provider : {"HMAC_SHA256", "HMAC_SHA384"},
      aead_alg : {"AES_128_GCM", "CHACHA20_POLY1305"} ]

\* mutant of can_resume_from: the suites are compared, not their hashes
can_resume_from_BySuite(self, previous) ==
    IF previous.common.suite = self.common.suite
    THEN Some(previous)
    ELSE None

\* Tls13CipherSuite::can_resume_from
can_resume_from(self, previous) ==
    IF previous.common.hash_provider.algorithm = self.common.hash_provider.algorithm
    THEN Some(previous)
    ELSE None

\* <Tls13CipherSuite as PartialEq>::eq
Tls13CipherSuite_eq(self, other) == self.common.suite = other.common.suite

InitSuite ==
    /\ this \in Tls13CipherSuites
    /\ prev \in Tls13CipherSuites
    /\ resumed = NotCalled
    /\ IdleSign /\ IdleVerify /\ IdleBuilder /\ IdleShared

CanResumeFrom ==
    /\ resumed = NotCalled
    /\ resumed' = can_resume_from(this, prev)
    /\ UNCHANGED <<this, prev, signVars, verifyVars, builderVars, sharedVars>>

\* the same question the other way round: the two suites change places
CanResumeFromReversed ==
    /\ resumed # NotCalled
    /\ this' = prev
    /\ prev' = this
    /\ resumed' = can_resume_from(prev, this)
    /\ UNCHANGED <<signVars, verifyVars, builderVars, sharedVars>>

NextSuite ==
    \/ CanResumeFrom
    \/ CanResumeFromReversed

SpecSuite == InitSuite /\ [][NextSuite]_vars

(***************************************************************************)
(* tls13/mod.rs: the CertificateVerify message                             *)
(***************************************************************************)
\* the byte values a transcript hash is drawn from: NUL, the padding byte
\* 0x20, and 0xff
HashBytes == {0, 32, 255}

\* hash::Output as a byte string
HashOutputs == UNION { [1..n -> HashBytes] : n \in 0..MaxHashLen }

\* Vec::resize(n, value) of an empty Vec
Resize(n, value) == [i \in 1..n |-> value]

\* mutant of construct_verify_message: the hash is put before the label
construct_verify_message_HashFirst(hash, context_string_with_0) ==
    LET msg0 == Resize(64, 32)
        msg1 == msg0 \o hash
        msg2 == msg1 \o context_string_with_0
    IN  msg2

\* construct_verify_message
construct_verify_message(hash, context_string_with_0) ==
    LET msg0 == Resize(64, 32)
        msg1 == msg0 \o context_string_with_0
        msg2 == msg1 \o hash
    IN  msg2

\* construct_client_verify_message: b"TLS 1.3, client CertificateVerify\x00"
construct_client_verify_message(hash) ==
    construct_verify_message(hash,
        << 84, 76, 83, 32, 49, 46, 51, 44, 32, 99, 108, 105, 101, 110, 116, 32,
           67, 101, 114, 116, 105, 102, 105, 99, 97, 116, 101,
           86, 101, 114, 105, 102, 121, 0 >>)

\* construct_server_verify_message: b"TLS 1.3, server CertificateVerify\x00"
construct_server_verify_message(hash) ==
    construct_verify_message(hash,
        << 84, 76, 83, 32, 49, 46, 51, 44, 32, 115, 101, 114, 118, 101, 114, 32,
           67, 101, 114, 116, 105, 102, 105, 99, 97, 116, 101,
           86, 101, 114, 105, 102, 121, 0 >>)

InitVerify ==
    /\ handshake_hash \in HashOutputs
    /\ role = "none"
    /\ msg = << >>
    /\ IdleSign /\ IdleSuite /\ IdleBuilder /\ IdleShared

ConstructClientVerifyMessage ==
    /\ role = "none"
    /\ role' = "client"
    /\ msg' = construct_client_verify_message(handshake_hash)
    /\ UNCHANGED <<handshake_hash, signVars, suiteVars, builderVars, sharedVars>>

ConstructServerVerifyMessage ==
    /\ role = "none"
    /\ role' = "server"
    /\ msg' = construct_server_verify_message(handshake_hash)
    /\ UNCHANGED <<handshake_hash, signVars, suiteVars, builderVars, sharedVars>>

NextVerify ==
    \/ ConstructClientVerifyMessage
    \/ ConstructServerVerifyMessage

SpecVerify == InitVerify /\ [][NextVerify]_vars

(***************************************************************************)
(* client/builder.rs: ConfigBuilder<ClientConfig, _>                       *)
(***************************************************************************)
\* what the earlier builder steps can have left in WantsVerifier
CipherSuiteLists ==
    { << "TLS13_AES_128_GCM_SHA256" >>,
      << "TLS13_AES_256_GCM_SHA384", "TLS13_AES_128_GCM_SHA256" >> }
KxGroupLists == { << "X25519" >>, << "X25519", "SECP256R1" >> }
CryptoProviders == { "ring", "custom" }
EnabledVersions == { [tls12 |-> TRUE, tls13 |-> TRUE], [tls12 |-> FALSE, tls13 |-> TRUE] }

\* struct WantsVerifier: the fields with_root_certificates reads
WantsVerifierStates ==
    [ type : {"WantsVerifier"}, cipher_suites : CipherSuiteLists,
      kx_groups : KxGroupLists, provider : CryptoProviders,
      versions : EnabledVersions ]

\* the arguments a caller can pass
RootCertStores == { [roots |-> {}], [roots |-> {"ca"}] }
CustomVerifiers == { [type |-> "ServerCertVerifier", id |-> "custom verifier"] }
CustomResolvers == { [type |-> "ResolvesClientCert", id |-> "custom resolver"] }
CertChains == { << >>, << "certificate" >> }
\* key bytes valid as at most one DER form, under every tag
BuilderKeyDers == { d \in PrivateKeyDers : Cardinality(d.bytes.forms) <= 1 }

\* webpki::WebPkiServerVerifier::new
WebPkiServerVerifier_new(root_store) ==
    [type |-> "WebPkiServerVerifier", roots |-> root_store]

\* handy::AlwaysResolvesClientCert::new (handy.rs): loads the key with
\* any_supported_type; the resolver always offers (chain, key)
AlwaysResolvesClientCert_new(chain, priv_key) ==
    LET key == any_supported_type(priv_key)
    IN  IF key.tag = "Ok"
        THEN Ok([type |-> "AlwaysResolvesClientCert",
                 certified_key |-> [cert |-> chain, key |-> key.val]])
        ELSE Err([type |-> "Error::General", reason |-> "invalid private key"])

\* handy::FailResolveClientCert {}
FailResolveClientCert == [type |-> "FailResolveClientCert"]

\* what a handshake passes to ResolvesClientCert::resolve, and the connection
\* it runs on
AcceptableIssuers == { << >>, << "issuer" >> }
RequestedSchemes == { << >>, << "ED25519", "RSA_PSS_SHA256" >> }
Connections == { "connection 1", "connection 2" }

\* <FailResolveClientCert as ResolvesClientCert>::resolve (handy.rs): declines
FailResolveClientCert_resolve(self, acceptable_issuers, sigschemes) == { None }

\* <AlwaysResolvesClientCert as ResolvesClientCert>::resolve (handy.rs): offers
\* its (chain, key)
AlwaysResolvesClientCert_resolve(self, acceptable_issuers, sigschemes) ==
    { Some(self.certified_key) }

\* a caller-supplied resolver: nothing is known of how it answers
CustomCertifiedKey == [cert |-> << "certificate" >>, key |-> [type |-> "custom key"]]
CustomResolver_resolve(self, acceptable_issuers, sigschemes) ==
    { None, Some(CustomCertifiedKey) }

\* dyn ResolvesClientCert::resolve: the answers the resolver can give
ResolvesClientCert_resolve(self, acceptable_issuers, sigschemes) ==
    CASE self.type = "FailResolveClientCert" ->
            FailResolveClientCert_resolve(self, acceptable_issuers, sigschemes)
      [] self.type = "AlwaysResolvesClientCert" ->
            AlwaysResolvesClientCert_resolve(self, acceptable_issuers, sigschemes)
      [] OTHER ->
            CustomResolver_resolve(self, acceptable_issuers, sigschemes)

\* ConfigBuilder<ClientConfig, WantsVerifier>::with_root_certificates
with_root_certificates(self, root_store) ==
    [ type |-> "WantsClientCert",
      cipher_suites |-> self.cipher_suites,
      kx_groups |-> self.kx_groups,
      provider |-> self.provider,
      versions |-> self.versions,
      verifier |-> WebPkiServerVerifier_new(root_store) ]

\* mutant of with_custom_certificate_verifier: the key-exchange groups are not
\* carried over, the new stage starts from one default group
with_custom_certificate_verifier_DefaultGroups(cfg, verifier) ==
    [ type |-> "WantsClientCert",
      cipher_suites |-> cfg.cipher_suites,
      kx_groups |-> << "X25519" >>,
      provider |-> cfg.provider,
      versions |-> cfg.versions,
      verifier |-> verifier ]

\* DangerousClientConfigBuilder::with_custom_certificate_verifier; cfg is the
\* WantsVerifier builder the accessor wraps
with_custom_certificate_verifier(cfg, verifier) ==
    [ type |-> "WantsClientCert",
      cipher_suites |-> cfg.cipher_suites,
      kx_groups |-> cfg.kx_groups,
      provider |-> cfg.provider,
      versions |-> cfg.versions,
      verifier |-> verifier ]

\* mutant of with_client_cert_resolver: early data is switched on for a
\* builder that enables TLS 1.3 only
with_client_cert_resolver_EarlyData(self, client_auth_cert_resolver) ==
    [ type |-> "ClientConfig",
      cipher_suites |-> self.cipher_suites,
      kx_groups |-> self.kx_groups,
      provider |-> self.provider,
      alpn_protocols |-> << >>,
      resumption |-> [type |-> "Resumption::default()"],
      max_fragment_size |-> None,
      client_auth_cert_resolver |-> client_auth_cert_resolver,
      versions |-> self.versions,
      enable_sni |-> TRUE,
      verifier |-> self.verifier,
      key_log |-> [type |-> "NoKeyLog"],
      enable_secret_extraction |-> FALSE,
      enable_early_data |-> ~self.versions.tls12 ]

\* ConfigBuilder<ClientConfig, WantsClientCert>::with_client_cert_resolver
with_client_cert_resolver(self, client_auth_cert_resolver) ==
    [ type |-> "ClientConfig",
      cipher_suites |-> self.cipher_suites,
      kx_groups |-> self.kx_groups,
      provider |-> self.provider,
      alpn_protocols |-> << >>,
      resumption |-> [type |-> "Resumption::default()"],
      max_fragment_size |-> None,
      client_auth_cert_resolver |-> client_auth_cert_resolver,
      versions |-> self.versions,
      enable_sni |-> TRUE,
      verifier |-> self.verifier,
      key_log |-> [type |-> "NoKeyLog"],
      enable_secret_extraction |-> FALSE,
      enable_early_data |-> FALSE ]

\* mutant of with_client_auth_cert: a key that does not load is not an error,
\* the configuration is finished without client authentication
with_client_auth_cert_FallsBack(self, cert_chain, key_der) ==
    LET resolver == AlwaysResolvesClientCert_new(cert_chain, key_der)
    IN  IF resolver.tag = "Ok"
        THEN Ok(with_client_cert_resolver(self, resolver.val))
        ELSE Ok(with_client_cert_resolver(self, FailResolveClientCert))

\* ConfigBuilder<ClientConfig, WantsClientCert>::with_client_auth_cert
with_client_auth_cert(self, cert_chain, key_der) ==
    LET resolver == AlwaysResolvesClientCert_new(cert_chain, key_der)
    IN  IF resolver.tag = "Ok"
        THEN Ok(with_client_cert_resolver(self, resolver.val))
        ELSE resolver

\* ConfigBuilder<ClientConfig, WantsClientCert>::with_single_cert
with_single_cert(self, cert_chain, key_der) ==
    with_client_auth_cert(self, cert_chain, key_der)

\* mutant of with_no_client_auth: installs a resolver that may answer
with_no_client_auth_MayAnswer(self) ==
    with_client_cert_resolver(self, [type |-> "ResolvesClientCert",
                                     id |-> "default resolver"])

\* ConfigBuilder<ClientConfig, WantsClientCert>::with_no_client_auth
with_no_client_auth(self) ==
    with_client_cert_resolver(self, FailResolveClientCert)

\* a value that was moved out of (every builder method takes self by value)
Moved == [type |-> "moved"]

Call(op, args) == [op |-> op, args |-> args]

\* the stage a Result<ClientConfig, Error> leaves the caller in
StageOf(result) == IF result.tag = "Ok" THEN "ClientConfig" ELSE "Err"

Init ==
    /\ stage = "WantsVerifier"
    /\ accessor = "none"
    /\ state \in WantsVerifierStates
    /\ calls = << >>
    /\ config = NotCalled
    /\ requests = << >>
    /\ IdleSign /\ IdleSuite /\ IdleVerify /\ IdleShared

\* mutant of WithRootCertificates: it finishes the configuration itself,
\* with no client authentication
WithRootCertificates_Finishing ==
    /\ stage = "WantsVerifier"
    /\ accessor = "none"
    /\ \E root_store \in RootCertStores :
          /\ config' = Ok(with_no_client_auth(with_root_certificates(state, root_store)))
          /\ calls' = Append(calls, Call("with_root_certificates",
                                         [root_store |-> root_store]))
    /\ stage' = "ClientConfig"
    /\ state' = Moved
    /\ UNCHANGED <<accessor, requests, signVars, suiteVars, verifyVars, sharedVars>>

\* a call of ConfigBuilder<ClientConfig, WantsVerifier>::with_root_certificates
WithRootCertificates ==
    /\ stage = "WantsVerifier"
    /\ accessor = "none"
    /\ \E root_store \in RootCertStores :
          /\ state' = with_root_certificates(state, root_store)
          /\ calls' = Append(calls, Call("with_root_certificates",
                                         [root_store |-> root_store]))
    /\ stage' = "WantsClientCert"
    /\ UNCHANGED <<accessor, config, requests, signVars, suiteVars, verifyVars, sharedVars>>

\* ConfigBuilder<ClientConfig, WantsVerifier>::dangerous
Dangerous ==
    /\ stage = "WantsVerifier"
    /\ accessor = "none"
    /\ accessor' = "dangerous"
    /\ calls' = Append(calls, Call("dangerous", [none |-> TRUE]))
    /\ UNCHANGED <<stage, state, config, requests, signVars, suiteVars, verifyVars, sharedVars>>

WithCustomCertificateVerifier ==
    /\ stage = "WantsVerifier"
    /\ accessor = "dangerous"
    /\ \E verifier \in CustomVerifiers :
          /\ state' = with_custom_certificate_verifier(state, verifier)
          /\ calls' = Append(calls, Call("with_custom_certificate_verifier",
                                         [verifier |-> verifier]))
    /\ stage' = "WantsClientCert"
    /\ accessor' = "none"
    /\ UNCHANGED <<config, requests, signVars, suiteVars, verifyVars, sharedVars>>

WithClientAuthCert ==
    /\ stage = "WantsClientCert"
    /\ \E cert_chain \in CertChains, key_der \in BuilderKeyDers :
          /\ config' = with_client_auth_cert(state, cert_chain, key_der)
          /\ calls' = Append(calls, Call("with_client_auth_cert",
                                [cert_chain |-> cert_chain, key_der |-> key_der]))
    /\ stage' = StageOf(config')
    /\ state' = Moved
    /\ UNCHANGED <<accessor, requests, signVars, suiteVars, verifyVars, sharedVars>>

WithSingleCert ==
    /\ stage = "WantsClientCert"
    /\ \E cert_chain \in CertChains, key_der \in BuilderKeyDers :
          /\ config' = with_single_cert(state, cert_chain, key_der)
          /\ calls' = Append(calls, Call("with_single_cert",
                                [cert_chain |-> cert_chain, key_der |-> key_der]))
    /\ stage' = StageOf(config')
    /\ state' = Moved
    /\ UNCHANGED <<accessor, requests, signVars, suiteVars, verifyVars, sharedVars>>

WithNoClientAuth ==
    /\ stage = "WantsClientCert"
    /\ config' = Ok(with_no_client_auth(state))
    /\ calls' = Append(calls, Call("with_no_client_auth", [none |-> TRUE]))
    /\ stage' = "ClientConfig"
    /\ state' = Moved
    /\ UNCHANGED <<accessor, requests, signVars, suiteVars, verifyVars, sharedVars>>

WithClientCertResolver ==
    /\ stage = "WantsClientCert"
    /\ \E resolver \in CustomResolvers :
          /\ config' = Ok(with_client_cert_resolver(state, resolver))
          /\ calls' = Append(calls, Call("with_client_cert_resolver",
                                         [resolver |-> resolver]))
    /\ stage' = "ClientConfig"
    /\ state' = Moved
    /\ UNCHANGED <<accessor, requests, signVars, suiteVars, verifyVars, sharedVars>>

\* a handshake on one of the connections made from the ClientConfig was asked
\* for a client certificate and asks the config's resolver
ResolveClientCert ==
    /\ stage = "ClientConfig"
    /\ config.tag = "Ok"
    /\ Len(requests) < MaxRequests
    /\ \E conn \in Connections, acceptable_issuers \in AcceptableIssuers,
          sigschemes \in RequestedSchemes :
          \E answer \in ResolvesClientCert_resolve(config.val.client_auth_cert_resolver,
                                                   acceptable_issuers, sigschemes) :
              requests' = Append(requests,
                                 [conn |-> conn,
                                  acceptable_issuers |-> acceptable_issuers,
                                  sigschemes |-> sigschemes,
                                  answer |-> answer])
    /\ UNCHANGED <<stage, accessor, state, calls, config,
                   signVars, suiteVars, verifyVars, sharedVars>>

Next ==
    \/ WithRootCertificates
    \/ Dangerous
    \/ WithCustomCertificateVerifier
    \/ WithClientAuthCert
    \/ WithSingleCert
    \/ WithNoClientAuth
    \/ WithClientCertResolver
    \/ ResolveClientCert

Spec == Init /\ [][Next]_vars

(***************************************************************************)
(* Properties of the builder (Spec)                                        *)
(***************************************************************************)
LastCall == calls[Len(calls)]

VerifierOps == { "with_root_certificates", "with_custom_certificate_verifier" }
ClientCertOps == { "with_client_auth_cert", "with_single_cert",
                   "with_no_client_auth", "with_client_cert_resolver" }
FallibleOps == { "with_client_auth_cert", "with_single_cert" }

\* the calls made, without the dangerous() accessor calls
StageCalls == SelectSeq(calls, LAMBDA c : c.op # "dangerous")

\* what the calls made so far must be, in each stage
C1_PathOfStage ==
    /\ stage \in { "WantsVerifier", "WantsClientCert", "ClientConfig", "Err" }
    /\ stage = "WantsVerifier" => StageCalls = << >> /\ config = NotCalled
    /\ stage = "WantsClientCert" =>
          /\ Len(StageCalls) = 1
          /\ StageCalls[1].op \in VerifierOps
          /\ config = NotCalled
    /\ stage = "ClientConfig" =>
          /\ Len(StageCalls) = 2
          /\ StageCalls[1].op \in VerifierOps
          /\ StageCalls[2].op \in ClientCertOps
          /\ config.tag = "Ok"
          /\ config.val.type = "ClientConfig"
    /\ stage = "Err" =>
          /\ Len(StageCalls) = 2
          /\ StageCalls[1].op \in VerifierOps
          /\ StageCalls[2].op \in FallibleOps
          /\ any_supported_type(StageCalls[2].args.key_der).tag # "Ok"
          /\ config.tag = "Err"
    /\ config.tag = "Ok" <=> stage = "ClientConfig"

\* the steps that change the stage
C1_Transition ==
    \/ stage' = stage
    \/ /\ stage = "WantsVerifier" /\ stage' = "WantsClientCert"
       /\ \/ accessor = "none" /\ LastCall'.op = "with_root_certificates"
          \/ accessor = "dangerous" /\ LastCall'.op = "with_custom_certificate_verifier"
    \/ /\ stage = "WantsClientCert" /\ stage' = "ClientConfig"
       /\ LastCall'.op \in ClientCertOps
    \/ /\ stage = "WantsClientCert" /\ stage' = "Err"
       /\ LastCall'.op \in FallibleOps
       /\ any_supported_type(LastCall'.args.key_der).tag # "Ok"

\* C1: a ClientConfig is produced only along WantsVerifier -> WantsClientCert
\* -> ClientConfig. The stage leaves WantsVerifier only by
\* with_root_certificates or dangerous().with_custom_certificate_verifier, both
\* into WantsClientCert; it leaves WantsClientCert only by one of the four
\* client-certificate operations, into ClientConfig; no step goes from
\* WantsVerifier to ClientConfig; and the only failure is with_client_auth_cert
\* (or its alias with_single_cert) on key bytes that do not load.
C1_BuilderOrder == [](C1_PathOfStage) /\ [][C1_Transition]_vars

\* a ClientConfig built over the dangerous() accessor and with_no_client_auth
C1_Witness ==
    /\ stage = "ClientConfig"
    /\ Len(calls) = 3
    /\ calls[1].op = "dangerous"
    /\ calls[2].op = "with_custom_certificate_verifier"
    /\ calls[3].op = "with_no_client_auth"

\* the policy fields with_client_cert_resolver fills in by itself
C11_Defaults(cfg) ==
    /\ cfg.alpn_protocols = << >>
    /\ cfg.resumption = [type |-> "Resumption::default()"]
    /\ cfg.max_fragment_size = None
    /\ cfg.enable_sni = TRUE
    /\ cfg.enable_secret_extraction = FALSE
    /\ cfg.enable_early_data = FALSE
    /\ cfg.key_log = [type |-> "NoKeyLog"]

\* C11: every ClientConfig produced by with_client_auth_cert, with_single_cert,
\* with_no_client_auth or with_client_cert_resolver has the fixed defaults,
\* whatever the suites, groups, provider, versions and verifier of the builder
\* were: no ALPN protocols, the default resumption policy, no maximum fragment
\* size, SNI on, secret extraction off, early data off, the no-op key log.
C11_FixedDefaults ==
    config.tag = "Ok" =>
        /\ LastCall.op \in ClientCertOps
        /\ C11_Defaults(config.val)

\* a ClientConfig for TLS 1.3 only with a custom provider, built over the
\* dangerous() accessor and with_client_auth_cert
C11_Witness ==
    /\ config.tag = "Ok"
    /\ LastCall.op = "with_client_auth_cert"
    /\ calls[1].op = "dangerous"
    /\ config.val.versions = [tls12 |-> FALSE, tls13 |-> TRUE]
    /\ config.val.provider = "custom"
    /\ Len(config.val.cipher_suites) = 2

\* the error a key that does not load is reported with
KeyParseError == Err([type |-> "Error::General", reason |-> "invalid private key"])

\* the fields a builder in WantsClientCert holds
BuilderFields == { "cipher_suites", "kx_groups", "provider", "versions", "verifier" }

\* the outcome of the last call, when it was with_client_auth_cert or its alias
C12_Outcome ==
    (Len(calls) > 0 /\ LastCall.op \in FallibleOps) =>
        LET key == any_supported_type(LastCall.args.key_der)
        IN  IF key.tag = "Ok"
            THEN /\ stage = "ClientConfig"
                 /\ config.tag = "Ok"
                 /\ config.val.client_auth_cert_resolver =
                        [type |-> "AlwaysResolvesClientCert",
                         certified_key |-> [cert |-> LastCall.args.cert_chain,
                                            key |-> key.val]]
            ELSE /\ stage = "Err"
                 /\ config = KeyParseError
                 /\ DOMAIN config.val \cap (BuilderFields \cup {"client_auth_cert_resolver"}) = {}

\* a step of with_client_auth_cert takes the builder as it is: on failure the
\* builder is consumed with nothing written to it or left of it, on success
\* its five fields are in the ClientConfig
C12_Step ==
    (stage = "WantsClientCert" /\ stage' # stage /\ LastCall'.op \in FallibleOps) =>
        /\ state.type = "WantsClientCert"
        /\ state' = Moved
        /\ accessor' = accessor
        /\ stage' = "ClientConfig" =>
              \A f \in BuilderFields : config'.val[f] = state[f]
        /\ stage' = "Err" => config' = KeyParseError

C13_AlwaysDeclines ==
    (stage = "ClientConfig" /\ LastCall.op = "with_no_client_auth") =>
        /\ config.val.client_auth_cert_resolver = FailResolveClientCert
        /\ \A i \in 1..Len(requests) : requests[i].answer = None

\* two requests on different connections with different offered schemes, both
\* made of a with_no_client_auth configuration
C13_Witness ==
    /\ stage = "ClientConfig"
    /\ LastCall.op = "with_no_client_auth"
    /\ Len(requests) = 2
    /\ requests[1].conn # requests[2].conn
    /\ requests[1].sigschemes = << "ED25519", "RSA_PSS_SHA256" >>
    /\ requests[2].sigschemes = << >>
    /\ requests[2].acceptable_issuers # << >>

\* the fields both builder stages and the ClientConfig hold
AccumulatedFields == { "cipher_suites", "kx_groups", "provider", "versions" }

\* the value the caller holds: the builder, or the finished ClientConfig
Held == IF stage = "ClientConfig" THEN config.val ELSE state

\* the verifier the call that entered WantsClientCert chose
C15_VerifierOf(call) ==
    IF call.op = "with_custom_certificate_verifier"
    THEN call.args.verifier
    ELSE WebPkiServerVerifier_new(call.args.root_store)

\* verifier and resolver of a builder or ClientConfig are the ones its calls chose
C15_ChosenParts ==
    /\ stage = "WantsClientCert" => state.verifier = C15_VerifierOf(StageCalls[1])
    /\ stage = "ClientConfig" =>
          /\ config.val.verifier = C15_VerifierOf(StageCalls[1])
          /\ calls[1].op = "dangerous" =>
                config.val.verifier = calls[2].args.verifier
          /\ LastCall.op = "with_client_cert_resolver" =>
                config.val.client_auth_cert_resolver = LastCall.args.resolver

\* no step changes a field of the value the caller holds, except that a failing
\* step leaves the caller nothing
C15_CarriedOver ==
    stage' \in { "WantsVerifier", "WantsClientCert", "ClientConfig" } =>
        /\ \A f \in AccumulatedFields : Held'[f] = Held[f]
        /\ (stage = "WantsClientCert" /\ stage' = "ClientConfig") =>
              Held'.verifier = Held.verifier
        /\ stage = "ClientConfig" => Held' = Held

\* C15: every stage transition carries the accumulated fields over unchanged:
\* cipher suites, key-exchange groups, provider and enabled versions of the
\* ClientConfig are those held in WantsVerifier, on the with_root_certificates
\* path and on the dangerous().with_custom_certificate_verifier path; the
\* ClientConfig's verifier is the one chosen on entering WantsClientCert (on the
\* dangerous path the caller's verifier itself), and its resolver is the one
\* passed to with_client_cert_resolver.
C15_FieldsCarriedOver == [](C15_ChosenParts) /\ [][C15_CarriedOver]_vars

\* a ClientConfig built over dangerous() and with_client_cert_resolver from a
\* WantsVerifier holding two suites, two groups and a custom provider
C15_Witness ==
    /\ stage = "ClientConfig"
    /\ Len(calls) = 3
    /\ calls[1].op = "dangerous"
    /\ calls[2].op = "with_custom_certificate_verifier"
    /\ calls[3].op = "with_client_cert_resolver"
    /\ Len(config.val.cipher_suites) = 2
    /\ Len(config.val.kx_groups) = 2
    /\ config.val.provider = "custom"
    /\ config.val.versions.tls12 = FALSE
    /\ config.val.verifier \in CustomVerifiers
    /\ config.val.client_auth_cert_resolver \in CustomResolvers

(***************************************************************************)
(* Properties of key loading and scheme choice (SpecSign)                  *)
(***************************************************************************)
\* The parsers in the order of the contract: the key each yields, the tags it
\* is tried under, and the DER form it needs under each tag.
KeyParsers ==
    << [ type |-> "RsaSigningKey", scheme |-> "any of six", family |-> "RSA",
         form |-> [t \in {"Pkcs1", "Pkcs8"} |->
                     IF t = "Pkcs1" THEN "RSAPrivateKey" ELSE "PrivateKeyInfo-rsa"] ],
       [ type |-> "EcdsaSigningKey", scheme |-> "ECDSA_NISTP256_SHA256",
         family |-> "ECDSA",
         form |-> [t \in {"Pkcs8", "Sec1"} |->
                     IF t = "Pkcs8" THEN "PrivateKeyInfo-p256" ELSE "ECPrivateKey-p256"] ],
       [ type |-> "EcdsaSigningKey", scheme |-> "ECDSA_NISTP384_SHA384",
         family |-> "ECDSA",
         form |-> [t \in {"Pkcs8", "Sec1"} |->
                     IF t = "Pkcs8" THEN "PrivateKeyInfo-p384" ELSE "ECPrivateKey-p384"] ],
       [ type |-> "Ed25519SigningKey", scheme |-> "ED25519", family |-> "ED25519",
         form |-> [t \in {"Pkcs8"} |-> "PrivateKeyInfo-ed25519"] ] >>

\* parser i succeeds on d
ParserAccepts(i, d) ==
    /\ d.tag \in DOMAIN KeyParsers[i].form
    /\ KeyParsers[i].form[d.tag] \in d.bytes.forms

\* the parsers among `among`, a set of indices, that succeed on d
Accepting(among, d) == { i \in among : ParserAccepts(i, d) }

\* the first of a non-empty set of indices
First(S) == CHOOSE i \in S : \A j \in S : i <= j

\* loaded is the key parser i yields
LoadedBy(i) ==
    /\ loaded.tag = "Ok"
    /\ loaded.val.type = KeyParsers[i].type
    /\ KeyParsers[i].type # "RsaSigningKey" => loaded.val.scheme = KeyParsers[i].scheme

\* loaded is the key-parse error value
LoadFailed == loaded = Err(SignError)

\* d is a validly encoded key of the pair (tag, form): tagged as encoded, and
\* valid DER of that one form only
ValidKey(d, tag, form) == d.tag = tag /\ d.bytes.forms = { form }

\* C2: any_supported_type returns the key of the first parser, in the order
\* RSA (PKCS1, PKCS8), ECDSA-P256, ECDSA-P384 (PKCS8, SEC1), Ed25519 (PKCS8),
\* that succeeds on the input, whatever the other parsers would do, and the
\* key-parse error exactly when none succeeds.
C2_FirstMatch ==
    entry = "any_supported_type" =>
        LET ok == Accepting(1..4, der)
        IN  /\ ok = {} <=> LoadFailed
            /\ ok # {} => LoadedBy(First(ok))

\* PKCS8-tagged bytes every PKCS8 parser accepts, loaded as the RSA key
C2_Witness ==
    /\ entry = "any_supported_type"
    /\ der.tag = "Pkcs8"
    /\ Accepting(1..4, der) = 1..4
    /\ LoadedBy(1)

\* the six RSA schemes in the order of preference
RsaPreference ==
    << "RSA_PSS_SHA512", "RSA_PSS_SHA384", "RSA_PSS_SHA256",
       "RSA_PKCS1_SHA512", "RSA_PKCS1_SHA384", "RSA_PKCS1_SHA256" >>

\* C3: an RSA key's choose_scheme returns a signer of the first scheme of the
\* preference list that occurs in offered, at whatever place of offered, and
\* no signer when none of the six occurs in offered.
C3_RsaPreference ==
    (loaded.tag = "Ok" /\ loaded.val.type = "RsaSigningKey" /\ signer.tag # "NotCalled") =>
        LET hit == { i \in 1..6 : Contains(offered, RsaPreference[i]) }
        IN  /\ hit = {} <=> signer = None
            /\ hit # {} =>
                  /\ signer.tag = "Some"
                  /\ Signer_scheme(signer.val) = RsaPreference[First(hit)]
                  /\ signer.val.encoding = RsaPreference[First(hit)]

\* offered [PKCS1-SHA256, PSS-SHA256] selects PSS-SHA256
C3_Witness ==
    /\ loaded.tag = "Ok" /\ loaded.val.type = "RsaSigningKey"
    /\ offered = << "RSA_PKCS1_SHA256", "RSA_PSS_SHA256" >>
    /\ signer.tag = "Some"
    /\ Signer_scheme(signer.val) = "RSA_PSS_SHA256"

\* the family of each scheme a key of sign.rs can sign with
FamilyOfScheme(scheme) ==
    IF scheme \in { RsaPreference[i] : i \in 1..6 } THEN "RSA"
    ELSE IF scheme \in { "ECDSA_NISTP256_SHA256", "ECDSA_NISTP384_SHA384" } THEN "ECDSA"
    ELSE IF scheme = "ED25519" THEN "ED25519"
    ELSE "none"

C4_SignerOfOffered ==
    signer.tag = "Some" =>
        /\ Contains(offered, Signer_scheme(signer.val))
        /\ SigningKey_algorithm(loaded.val) = FamilyOfScheme(Signer_scheme(signer.val))

C4_SchemeKept ==
    (signer.tag = "Some" /\ signer'.tag = "Some") =>
        Signer_scheme(signer'.val) = Signer_scheme(signer.val)

\* C4: for a key of any family, the scheme() of a signer choose_scheme
\* returned is in the offered list of that call, is the same after every
\* sign() of that signer, and the key's algorithm() is the family of that
\* scheme.
C4_SignerScheme == [](C4_SignerOfOffered) /\ [][C4_SchemeKept]_vars

\* an Ed25519 signer that has signed
C4_Witness ==
    /\ signer.tag = "Some"
    /\ signer.val.type = "Ed25519Signer"
    /\ Len(offered) = 2
    /\ sig.tag = "Ok"

\* C5: an ECDSA key has the scheme of the curve of the parser that accepted
\* it (P256 tried first), from SEC1 input as from PKCS8 input, and
\* choose_scheme returns a signer, of that scheme, exactly when that scheme is
\* in offered.
C5_EcdsaFixedScheme ==
    (loaded.tag = "Ok" /\ loaded.val.type = "EcdsaSigningKey") =>
        LET key == loaded.val
            p256 == ParserAccepts(2, der)
            fixed == IF p256 THEN "ECDSA_NISTP256_SHA256" ELSE "ECDSA_NISTP384_SHA384"
        IN  /\ der.tag \in { "Sec1", "Pkcs8" }
            /\ p256 \/ ParserAccepts(3, der)
            /\ key.scheme = fixed
            /\ key.key.alg = IF p256 THEN "ECDSA_P256_SHA256_ASN1_SIGNING"
                                     ELSE "ECDSA_P384_SHA384_ASN1_SIGNING"
            /\ signer.tag # "NotCalled" =>
                  /\ signer.tag = "Some" <=> Contains(offered, fixed)
                  /\ signer.tag = "Some" => Signer_scheme(signer.val) = fixed
                  /\ signer.tag # "Some" => signer = None

\* a P256 key from SEC1 input, offered only the P384 scheme: no signer
C5_Witness ==
    /\ ValidKey(der, "Sec1", "ECPrivateKey-p256")
    /\ loaded.tag = "Ok"
    /\ loaded.val.scheme = "ECDSA_NISTP256_SHA256"
    /\ offered = << "ECDSA_NISTP384_SHA384" >>
    /\ signer = None

\* the (encoding, algorithm) pairs: tag, DER form, family of the key
ValidPairs ==
    { << "Pkcs1", "RSAPrivateKey", "RSA" >>,
      << "Pkcs8", "PrivateKeyInfo-rsa", "RSA" >>,
      << "Pkcs8", "PrivateKeyInfo-p256", "ECDSA" >>,
      << "Sec1", "ECPrivateKey-p256", "ECDSA" >>,
      << "Pkcs8", "PrivateKeyInfo-p384", "ECDSA" >>,
      << "Sec1", "ECPrivateKey-p384", "ECDSA" >>,
      << "Pkcs8", "PrivateKeyInfo-ed25519", "ED25519" >> }

\* C6: any_supported_type on a validly encoded key of each of the seven
\* (encoding, algorithm) pairs succeeds, with a key whose algorithm() is the
\* family of the pair.
C6_ValidKeysLoad ==
    \A pair \in ValidPairs :
        (entry = "any_supported_type" /\ ValidKey(der, pair[1], pair[2])) =>
            /\ loaded.tag = "Ok"
            /\ SigningKey_algorithm(loaded.val) = pair[3]

\* a PKCS8 Ed25519 key, the last parser of the order, loaded
C6_Witness ==
    /\ entry = "any_supported_type"
    /\ ValidKey(der, "Pkcs8", "PrivateKeyInfo-ed25519")
    /\ loaded.tag = "Ok"
    /\ SigningKey_algorithm(loaded.val) = "ED25519"

\* C7: any_ecdsa_type succeeds exactly when the P256 or the P384 parser
\* accepts, P256 first, and fails for valid RSA and Ed25519 keys;
\* any_eddsa_type is given PKCS8-tagged input only, succeeds exactly when the
\* Ed25519 parser accepts, and fails for valid RSA and ECDSA keys; a valid key
\* the narrower entry point fails on still loads with any_supported_type.
C7_NarrowEntryPoints ==
    /\ entry = "any_ecdsa_type" =>
          LET ok == Accepting({2, 3}, der)
          IN  /\ ok = {} <=> LoadFailed
              /\ ok # {} => LoadedBy(First(ok))
    /\ entry = "any_eddsa_type" =>
          /\ der.tag = "Pkcs8"
          /\ ParserAccepts(4, der) <=> LoadedBy(4)
          /\ ~ParserAccepts(4, der) <=> LoadFailed
    /\ \A pair \in ValidPairs :
          (ValidKey(der, pair[1], pair[2]) /\ entry \in {"any_ecdsa_type", "any_eddsa_type"}) =>
              /\ loaded.tag = "Ok" <=>
                    pair[3] = (IF entry = "any_ecdsa_type" THEN "ECDSA" ELSE "ED25519")
              /\ loaded.tag # "Ok" =>
                    /\ LoadFailed
                    /\ any_supported_type(der).tag = "Ok"

\* a valid PKCS8 RSA key, refused by any_ecdsa_type
C7_Witness ==
    /\ entry = "any_ecdsa_type"
    /\ ValidKey(der, "Pkcs8", "PrivateKeyInfo-rsa")
    /\ LoadFailed

\* C8: on input no parser accepts under its tag, each of the three entry
\* points returns the key-parse error, not a key; and neither loading nor a
\* choose_scheme after it reaches an unreachable!() arm.
C8_NoKeyNoPanic ==
    /\ loaded.tag # "Panic"
    /\ signer.tag # "Panic"
    /\ (entry # "none" /\ Accepting(1..4, der) = {}) => LoadFailed
    /\ loaded.tag # "Ok" => signer = NotCalled

\* bytes that are no valid DER, SEC1-tagged, refused by any_supported_type
C8_Witness ==
    /\ entry = "any_supported_type"
    /\ der.tag = "Sec1"
    /\ der.bytes.forms = {}
    /\ LoadFailed

(***************************************************************************)
(* Properties of a shared SigningKey (SpecShared)                          *)
(***************************************************************************)
\* the handshakes that hold a signer
SignerHolders == { h \in Handshakes : handshakes[h].signer.tag = "Some" }

\* what every call of choose_scheme that has returned did return: what the
\* call gives when it runs alone on the key with the same offered list
C14_AsWhenAlone ==
    /\ shared_key \in SharedKeys
    /\ strong_count = 1 + Cardinality(SignerHolders)
    /\ \A h \in Handshakes :
          /\ handshakes[h].pc \in { "returned", "signed" } =>
                /\ handshakes[h].signer =
                      SigningKey_choose_scheme(shared_key, handshakes[h].offered)
                /\ handshakes[h].signer.tag \in { "Some", "None" }
          /\ handshakes[h].signer.tag = "Some" =>
                /\ handshakes[h].signer.val.key = shared_key.key
                /\ SignatureScheme_sign(Signer_scheme(handshakes[h].signer.val)) =
                      SigningKey_algorithm(shared_key)

\* no step of any handshake writes to the key
C14_KeyKept ==
    /\ shared_key' = shared_key
    /\ SigningKey_algorithm(shared_key') = SigningKey_algorithm(shared_key)

\* C14: a SigningKey shared by concurrently running handshakes is never
\* modified by choose_scheme or by signing: under every interleaving of the
\* steps of the handshakes, each choose_scheme call returns what it returns
\* when run alone with the same offered list, and the key (its algorithm(),
\* its fixed scheme, its key pair) is the same before and after every step.
C14_SharedKeyReadOnly == [](C14_AsWhenAlone) /\ [][C14_KeyKept]_vars

\* two handshakes on one ECDSA key at once: the first has signed, the second,
\* offered a list without the key's scheme, got no signer
C14_Witness ==
    /\ shared_key.type = "EcdsaSigningKey"
    /\ handshakes[1].pc = "signed"
    /\ handshakes[1].sig.tag = "Ok"
    /\ handshakes[2].pc = "returned"
    /\ handshakes[2].offered = << "ED25519" >>
    /\ handshakes[2].signer = None
    /\ strong_count = 2

(***************************************************************************)
(* Properties of can_resume_from (SpecSuite)                               *)
(***************************************************************************)
HashOf(suite) == suite.common.hash_provider.algorithm

\* C9: self.can_resume_from(prev) is prev exactly when the hash algorithms of
\* the two suites are equal, and nothing otherwise, whatever their AEAD and
\* HMAC; so it answers the same both ways round.
C9_ResumeByHash ==
    resumed # NotCalled =>
        /\ HashOf(prev) = HashOf(this) <=> resumed = Some(prev)
        /\ HashOf(prev) # HashOf(this) <=> resumed = None
        /\ resumed.tag = "Some" <=> can_resume_from(prev, this).tag = "Some"
        /\ resumed.tag = "Some" => can_resume_from(prev, this).val = this

\* two suites of the same hash, different in AEAD, HMAC and suite id
C9_Witness ==
    /\ resumed.tag = "Some"
    /\ this.aead_alg # prev.aead_alg
    /\ this.hmac_provider # prev.hmac_provider
    /\ ~Tls13CipherSuite_eq(this, prev)

(***************************************************************************)
(* Properties of the CertificateVerify message (SpecVerify)                *)
(***************************************************************************)
Ascii ==
    [ c \in { " ", ",", ".", "1", "3", "C", "L", "S", "T", "V", "a", "c", "e",
              "f", "i", "l", "n", "r", "s", "t", "v", "y" } |->
        CASE c = " " -> 32 [] c = "," -> 44 [] c = "." -> 46 [] c = "1" -> 49
          [] c = "3" -> 51 [] c = "C" -> 67 [] c = "L" -> 76 [] c = "S" -> 83
          [] c = "T" -> 84 [] c = "V" -> 86 [] c = "a" -> 97 [] c = "c" -> 99
          [] c = "e" -> 101 [] c = "f" -> 102 [] c = "i" -> 105 [] c = "l" -> 108
          [] c = "n" -> 110 [] c = "r" -> 114 [] c = "s" -> 115 [] c = "t" -> 116
          [] c = "v" -> 118 [] c = "y" -> 121 ]

\* "TLS 1.3, <who> CertificateVerify" and one NUL byte
LabelWithNul(who) ==
    LET text == << "T", "L", "S", " ", "1", ".", "3", ",", " " >> \o who \o
                << " ", "C", "e", "r", "t", "i", "f", "i", "c", "a", "t", "e",
                   "V", "e", "r", "i", "f", "y" >>
    IN  [i \in 1..Len(text) |-> Ascii[text[i]]] \o << 0 >>

ClientLabel == LabelWithNul(<< "c", "l", "i", "e", "n", "t" >>)
ServerLabel == LabelWithNul(<< "s", "e", "r", "v", "e", "r" >>)

\* C10: a verify message is 64 bytes 0x20, then the label of the role with
\* its NUL byte, then the bytes of the hash; its length is 64 + the label's
\* + the hash's; and the other role's message for the same hash differs from
\* it in the label bytes only.
C10_VerifyMessage ==
    role # "none" =>
        LET label == IF role = "client" THEN ClientLabel ELSE ServerLabel
            other == IF role = "client"
                     THEN construct_server_verify_message(handshake_hash)
                     ELSE construct_client_verify_message(handshake_hash)
            n == Len(label)
        IN  /\ n = 34
            /\ Len(msg) = 64 + n + Len(handshake_hash)
            /\ \A i \in 1..64 : msg[i] = 32
            /\ \A i \in 1..n : msg[64 + i] = label[i]
            /\ \A i \in 1..Len(handshake_hash) : msg[64 + n + i] = handshake_hash[i]
            /\ Len(other) = Len(msg)
            /\ \A i \in 1..Len(msg) : (i <= 64 \/ i > 64 + n) => other[i] = msg[i]
            /\ other # msg

\* the server's message over a hash of the greatest length that ends in 0x20
C10_Witness ==
    /\ role = "server"
    /\ Len(handshake_hash) = MaxHashLen
    /\ handshake_hash[MaxHashLen] = 32
    /\ Len(msg) = 98 + MaxHashLen

====
